---------------------------- MODULE Spec2Model ----------------------------
(***************************************************************************)
(* A model of GoogleAuthProvider                                           *)
(* (plugins/auth-backend/src/providers/google/provider.ts): the four route *)
(* handlers start, frameHandler, logout and refresh, the strategy's verify *)
(* callback, and the clients that call them.  The provider keeps no state  *)
(* between requests; the only durable state is each browser's cookie jar.  *)
(*                                                                         *)
(* JavaScript values are strings; `undefined` is a reserved string.        *)
(* Objects are records (functions on field names).                         *)
(***************************************************************************)
EXTENDS Integers, Sequences, FiniteSets, TLC

VARIABLES
  providerConfig,  \* the provider's only field
  jar,   \* jar[b]: the cookies browser b holds, a set of [name, value, path, domain]
  req,   \* the request handled last, with the environment's answers to it
  res    \* the response the handler produced for req

vars == <<providerConfig, jar, req, res>>

---------------------------------------------------------------------------
(* Bounds of the model *)

NumNonces == 2
NumTokens == 2

---------------------------------------------------------------------------
(* JavaScript values *)

undefined == "<undefined>"

\* `!v` is false: v is neither undefined nor the empty string
Truthy(v) == v # undefined /\ v # ""

\* obj[k] of an object that may lack the key (and of `false`, the empty object here)
Get(obj, k) == IF k \in DOMAIN obj THEN obj[k] ELSE undefined

\* delete obj[k]
Delete(obj, k) == [f \in (DOMAIN obj) \ {k} |-> obj[f]]

\* {}
emptyObject == [f \in {} |-> undefined]

\* the callback argument `user` when passport reports a failed authentication:
\* false, which has no property of its own
False == emptyObject

\* a number too wide for 32 bits, as <<hi, lo>> = hi * 10^6 + lo
Big(n) == <<n \div 1000000, n % 1000000>>

BigMul(a, k) ==
  LET p == a[2] * k
  IN  <<a[1] * k + p \div 1000000, p % 1000000>>

---------------------------------------------------------------------------
(* Constants of provider.ts *)

THOUSAND_DAYS_MS == BigMul(BigMul(BigMul(BigMul(Big(1000), 24), 60), 60), 1000)

TEN_MINUTES_MS == BigMul(Big(600), 1000)

\* this.providerConfig.provider
provider == "google"

nonceCookieName == provider \o "-nonce"

refreshTokenCookieName == provider \o "-refresh-token"

\* paths are sequences of segments: /auth/google/handler is <<"auth", "google", "handler">>
providerPath == <<"auth", provider>>

handlerPath == <<"auth", provider, "handler">>

---------------------------------------------------------------------------
(* The express response object *)

\* a response nothing has been written to: express's default status is 200
newResponse ==
  [status |-> 200, body |-> [kind |-> "none"], cookies |-> << >>,
   idp |-> << >>, thrown |-> << >>]

\* res.cookie(name, value, options): appends one Set-Cookie header
resCookie(r, name, value, options) ==
  [r EXCEPT !.cookies = Append(@, [name |-> name, value |-> value, options |-> options])]

\* res.status(code)
resStatus(r, code) == [r EXCEPT !.status = code]

\* res.send(body) with a string
resSend(r, text) == [r EXCEPT !.body = [kind |-> "text", text |-> text]]

\* res.send(body) with an object: the JSON of it
resSendJson(r, obj) == [r EXCEPT !.body = [kind |-> "json", json |-> obj]]

\* throw new InputError(message): the handler ends, the headers written so far stay
throwInputError(r, message) ==
  [r EXCEPT !.thrown = Append(@, [name |-> "InputError", message |-> message])]

---------------------------------------------------------------------------
(* Collaborators outside provider.ts *)

\* utils.ensuresXRequestedWith(req): the header is present with the expected value
ensuresXRequestedWith(rq) == rq.header = "XMLHttpRequest"

\* utils.postMessageResponse(res, message): an HTML page posting message to its opener
postMessageResponse(r, message) ==
  [r EXCEPT !.body = [kind |-> "postMessage", message |-> message]]

\* passport.authenticate('google', options)(req, res, next) with no callback:
\* the strategy redirects the browser to the IdP's consent screen
authenticateRedirect(r, options) ==
  [r EXCEPT !.status = 302,
            !.idp = Append(@, [call |-> "authorize", options |-> options])]

\* passport.authenticate('google', callback)(req, res, next): the strategy
\* exchanges the code with the IdP, then calls callback(err, user)
authenticateExchange(r) == [r EXCEPT !.idp = Append(@, [call |-> "exchange"])]

\* refresh.requestNewAccessToken(name, refreshToken, params, done): the refresh grant
requestNewAccessToken(r, name, refreshToken, params) ==
  [r EXCEPT !.idp = Append(@, [call |-> "refresh", strategy |-> name,
                               refreshToken |-> refreshToken, params |-> params])]

---------------------------------------------------------------------------
(* Cookie options *)

startCookieOptions ==
  [maxAge |-> TEN_MINUTES_MS, secure |-> FALSE, sameSite |-> "none",
   domain |-> "localhost", path |-> handlerPath, httpOnly |-> TRUE]

\* the options of the refresh-token cookie, with the thousand days in seconds
frameHandlerCookieOptions_seconds ==
  [maxAge |-> BigMul(BigMul(BigMul(Big(1000), 24), 60), 60), secure |-> FALSE,
   sameSite |-> "none", domain |-> "localhost", path |-> providerPath,
   httpOnly |-> TRUE]

frameHandlerCookieOptions ==
  [maxAge |-> THOUSAND_DAYS_MS, secure |-> FALSE, sameSite |-> "none",
   domain |-> "localhost", path |-> providerPath, httpOnly |-> TRUE]

\* the options of logout, with the path of the nonce cookie
logoutCookieOptions_handlerPath ==
  [maxAge |-> Big(0), secure |-> FALSE, sameSite |-> "none",
   domain |-> "localhost", path |-> handlerPath, httpOnly |-> TRUE]

logoutCookieOptions ==
  [maxAge |-> Big(0), secure |-> FALSE, sameSite |-> "none",
   domain |-> "localhost", path |-> providerPath, httpOnly |-> TRUE]

---------------------------------------------------------------------------
(* strategy(): the verify callback maps the IdP's token response to the user *)

strategy(accessToken, refreshToken, params, profile) ==
  [profile |-> profile,
   idToken |-> params.id_token,
   accessToken |-> accessToken,
   refreshToken |-> refreshToken,
   scope |-> params.scope,
   expiresInSeconds |-> params.expires_in]

---------------------------------------------------------------------------
(* The route handlers.  rq is the request with what the environment answers *)
(* while it is handled: rq.rand is what crypto.randomBytes returns, rq.idp  *)
(* is what the IdP returns if it is asked                                   *)

\* req.query.scope?.toString() ?? ''
scopeToString(v) == IF v = undefined THEN "" ELSE v

\* start, passing the state of the request on instead of the nonce
start_stateFromQuery(rq) ==
  LET nonce == rq.rand
      r1 == resCookie(newResponse, nonceCookieName, nonce, startCookieOptions)
      scope == scopeToString(Get(rq.query, "scope"))
  IN  IF ~Truthy(scope)
        THEN throwInputError(r1, "missing scope parameter")
        ELSE authenticateRedirect(r1,
               [scope |-> scope, accessType |-> "offline",
                prompt |-> "consent", state |-> Get(rq.query, "state")])

\* start, refusing only a scope that is absent
start_absentScopeOnly(rq) ==
  LET nonce == rq.rand
      r1 == resCookie(newResponse, nonceCookieName, nonce, startCookieOptions)
      scope == Get(rq.query, "scope")
  IN  IF scope = undefined
        THEN throwInputError(r1, "missing scope parameter")
        ELSE authenticateRedirect(r1,
               [scope |-> scope, accessType |-> "offline",
                prompt |-> "consent", state |-> nonce])

\* start, redirecting without writing the nonce cookie
start_noCookie(rq) ==
  LET nonce == rq.rand
      scope == scopeToString(Get(rq.query, "scope"))
  IN  IF ~Truthy(scope)
        THEN throwInputError(newResponse, "missing scope parameter")
        ELSE authenticateRedirect(newResponse,
               [scope |-> scope, accessType |-> "offline",
                prompt |-> "consent", state |-> nonce])

start(rq) ==
  LET nonce == rq.rand
      r1 == resCookie(newResponse, nonceCookieName, nonce, startCookieOptions)
      scope == scopeToString(Get(rq.query, "scope"))
  IN  IF ~Truthy(scope)
        THEN throwInputError(r1, "missing scope parameter")
        ELSE authenticateRedirect(r1,
               [scope |-> scope, accessType |-> "offline",
                prompt |-> "consent", state |-> nonce])

\* the callback frameHandler gives passport.authenticate: (err, user) => ...
\* the callback, without the check that a refresh token came
frameHandlerCallback_noRefreshTokenCheck(r, err, user) ==
  IF Truthy(err)
    THEN postMessageResponse(r,
           [type |-> "auth-result",
            error |-> [message |-> "Google auth failed, " \o err]])
    ELSE LET refreshToken == Get(user, "refreshToken")
             payload == Delete(user, "refreshToken")
             r1 == resCookie(r, refreshTokenCookieName, refreshToken,
                             frameHandlerCookieOptions)
         IN  postMessageResponse(r1, [type |-> "auth-result", payload |-> payload])

\* the callback, without `delete user.refreshToken`
frameHandlerCallback_noDelete(r, err, user) ==
  IF Truthy(err)
    THEN postMessageResponse(r,
           [type |-> "auth-result",
            error |-> [message |-> "Google auth failed, " \o err]])
    ELSE LET refreshToken == Get(user, "refreshToken")
         IN  IF ~Truthy(refreshToken)
               THEN postMessageResponse(r,
                      [type |-> "auth-result",
                       error |-> [message |-> "Missing refresh token"]])
               ELSE LET r1 == resCookie(r, refreshTokenCookieName, refreshToken,
                                        frameHandlerCookieOptions)
                    IN  postMessageResponse(r1,
                          [type |-> "auth-result", payload |-> user])

\* the callback, ending the stored session when the exchange fails
frameHandlerCallback_clearOnError(r, err, user) ==
  IF Truthy(err)
    THEN postMessageResponse(
           resCookie(r, refreshTokenCookieName, "", logoutCookieOptions),
           [type |-> "auth-result",
            error |-> [message |-> "Google auth failed, " \o err]])
    ELSE LET refreshToken == Get(user, "refreshToken")
         IN  IF ~Truthy(refreshToken)
               THEN postMessageResponse(r,
                      [type |-> "auth-result",
                       error |-> [message |-> "Missing refresh token"]])
               ELSE LET payload == Delete(user, "refreshToken")
                        r1 == resCookie(r, refreshTokenCookieName, refreshToken,
                                        frameHandlerCookieOptions)
                    IN  postMessageResponse(r1,
                          [type |-> "auth-result", payload |-> payload])

\* the callback, clearing the nonce cookie once it has served
frameHandlerCallback_consumeNonce(r, err, user) ==
  IF Truthy(err)
    THEN postMessageResponse(r,
           [type |-> "auth-result",
            error |-> [message |-> "Google auth failed, " \o err]])
    ELSE LET refreshToken == Get(user, "refreshToken")
         IN  IF ~Truthy(refreshToken)
               THEN postMessageResponse(r,
                      [type |-> "auth-result",
                       error |-> [message |-> "Missing refresh token"]])
               ELSE LET payload == Delete(user, "refreshToken")
                        r1 == resCookie(r, refreshTokenCookieName, refreshToken,
                                        frameHandlerCookieOptions)
                        r2 == resCookie(r1, nonceCookieName, "",
                                        [startCookieOptions EXCEPT !.maxAge = Big(0)])
                    IN  postMessageResponse(r2,
                          [type |-> "auth-result", payload |-> payload])

frameHandlerCallback(r, err, user) ==
  IF Truthy(err)
    THEN postMessageResponse(r,
           [type |-> "auth-result",
            error |-> [message |-> "Google auth failed, " \o err]])
    ELSE LET refreshToken == Get(user, "refreshToken")
         IN  IF ~Truthy(refreshToken)
               THEN postMessageResponse(r,
                      [type |-> "auth-result",
                       error |-> [message |-> "Missing refresh token"]])
               ELSE LET payload == Delete(user, "refreshToken")
                        r1 == resCookie(r, refreshTokenCookieName, refreshToken,
                                        frameHandlerCookieOptions)
                    IN  postMessageResponse(r1,
                          [type |-> "auth-result", payload |-> payload])

\* frameHandler, without the comparison of the two nonces
frameHandler_noCompare(rq) ==
  LET cookieNonce == Get(rq.cookies, nonceCookieName)
      stateNonce == Get(rq.query, "state")
  IN  IF ~Truthy(cookieNonce) \/ ~Truthy(stateNonce)
        THEN resSend(resStatus(newResponse, 401), "Missing nonce")
        ELSE frameHandlerCallback(authenticateExchange(newResponse),
                                  rq.idp.err, rq.idp.user)

\* frameHandler, comparing the nonces before it looks whether they are there
frameHandler_compareFirst(rq) ==
  LET cookieNonce == Get(rq.cookies, nonceCookieName)
      stateNonce == Get(rq.query, "state")
  IN  IF cookieNonce # stateNonce
        THEN resSend(resStatus(newResponse, 401), "Invalid nonce")
        ELSE IF ~Truthy(cookieNonce) \/ ~Truthy(stateNonce)
          THEN resSend(resStatus(newResponse, 401), "Missing nonce")
          ELSE frameHandlerCallback(authenticateExchange(newResponse),
                                    rq.idp.err, rq.idp.user)

frameHandler(rq) ==
  LET cookieNonce == Get(rq.cookies, nonceCookieName)
      stateNonce == Get(rq.query, "state")
  IN  IF ~Truthy(cookieNonce) \/ ~Truthy(stateNonce)
        THEN resSend(resStatus(newResponse, 401), "Missing nonce")
        ELSE IF cookieNonce # stateNonce
          THEN resSend(resStatus(newResponse, 401), "Invalid nonce")
          ELSE frameHandlerCallback(authenticateExchange(newResponse),
                                    rq.idp.err, rq.idp.user)

\* logout, answering without clearing the cookie
logout_sendOnly(rq) ==
  IF ~ensuresXRequestedWith(rq)
    THEN resSend(resStatus(newResponse, 401), "Invalid X-Requested-With header")
    ELSE resSend(newResponse, "logout!")

logout(rq) ==
  IF ~ensuresXRequestedWith(rq)
    THEN resSend(resStatus(newResponse, 401), "Invalid X-Requested-With header")
    ELSE resSend(resCookie(newResponse, refreshTokenCookieName, "",
                           logoutCookieOptions),
                 "logout!")

\* the callback refresh gives requestNewAccessToken:
\* (err, accessToken, _refreshToken, params) => ...
\* the callback, passing the IdP's new refresh token on in the body
refreshCallback_echo(r, err, accessToken, _refreshToken, params) ==
  IF Truthy(err) \/ ~Truthy(accessToken)
    THEN resSend(resStatus(r, 401), "Failed to refresh access token")
    ELSE resSendJson(r,
           [accessToken |-> accessToken,
            refreshToken |-> _refreshToken,
            idToken |-> params.id_token,
            expiresInSeconds |-> params.expires_in,
            scope |-> params.scope])

\* the callback, storing the IdP's new refresh token when it sends one
refreshCallback_rotate(r, err, accessToken, _refreshToken, params) ==
  IF Truthy(err) \/ ~Truthy(accessToken)
    THEN resSend(resStatus(r, 401), "Failed to refresh access token")
    ELSE LET r1 == IF Truthy(_refreshToken)
                     THEN resCookie(r, refreshTokenCookieName, _refreshToken,
                                    frameHandlerCookieOptions)
                     ELSE r
         IN  resSendJson(r1,
               [accessToken |-> accessToken,
                idToken |-> params.id_token,
                expiresInSeconds |-> params.expires_in,
                scope |-> params.scope])

refreshCallback(r, err, accessToken, _refreshToken, params) ==
  IF Truthy(err) \/ ~Truthy(accessToken)
    THEN resSend(resStatus(r, 401), "Failed to refresh access token")
    ELSE resSendJson(r,
           [accessToken |-> accessToken,
            idToken |-> params.id_token,
            expiresInSeconds |-> params.expires_in,
            scope |-> params.scope])

\* refresh, reading the cookie before it checks the header
refresh_cookieFirst(rq) ==
  LET refreshToken == Get(rq.cookies, refreshTokenCookieName)
  IN  IF ~Truthy(refreshToken)
        THEN resSend(resStatus(newResponse, 401), "Missing session cookie")
        ELSE IF ~ensuresXRequestedWith(rq)
          THEN resSend(resStatus(newResponse, 401), "Invalid X-Requested-With header")
          ELSE LET scope == scopeToString(Get(rq.query, "scope"))
                   refreshTokenRequestParams ==
                     IF Truthy(scope) THEN [scope |-> scope] ELSE emptyObject
               IN  refreshCallback(
                     requestNewAccessToken(newResponse, provider, refreshToken,
                                           refreshTokenRequestParams),
                     rq.idp.err, rq.idp.accessToken, rq.idp.refreshToken,
                     rq.idp.params)

\* refresh, refusing only a cookie that is absent
refresh_absentCookieOnly(rq) ==
  IF ~ensuresXRequestedWith(rq)
    THEN resSend(resStatus(newResponse, 401), "Invalid X-Requested-With header")
    ELSE LET refreshToken == Get(rq.cookies, refreshTokenCookieName)
         IN  IF refreshToken = undefined
               THEN resSend(resStatus(newResponse, 401), "Missing session cookie")
               ELSE LET scope == scopeToString(Get(rq.query, "scope"))
                        refreshTokenRequestParams ==
                          IF Truthy(scope) THEN [scope |-> scope] ELSE emptyObject
                    IN  refreshCallback(
                          requestNewAccessToken(newResponse, provider, refreshToken,
                                                refreshTokenRequestParams),
                          rq.idp.err, rq.idp.accessToken, rq.idp.refreshToken,
                          rq.idp.params)

refresh(rq) ==
  IF ~ensuresXRequestedWith(rq)
    THEN resSend(resStatus(newResponse, 401), "Invalid X-Requested-With header")
    ELSE LET refreshToken == Get(rq.cookies, refreshTokenCookieName)
         IN  IF ~Truthy(refreshToken)
               THEN resSend(resStatus(newResponse, 401), "Missing session cookie")
               ELSE LET scope == scopeToString(Get(rq.query, "scope"))
                        refreshTokenRequestParams ==
                          IF Truthy(scope) THEN [scope |-> scope] ELSE emptyObject
                    IN  refreshCallback(
                          requestNewAccessToken(newResponse, provider, refreshToken,
                                                refreshTokenRequestParams),
                          rq.idp.err, rq.idp.accessToken, rq.idp.refreshToken,
                          rq.idp.params)

---------------------------------------------------------------------------
(* The clients: browsers, which keep a cookie jar, and a client that sends  *)
(* whatever cookies it likes and keeps none                                 *)

Browsers == {"b1"}

Raw == "raw"

Clients == Browsers \cup {Raw}

Nonces == {"n" \o ToString(i) : i \in 1..NumNonces}

RefreshTokens == {"rt" \o ToString(i) : i \in 1..NumTokens}

startRoute == providerPath \o <<"start">>

frameRoute == handlerPath \o <<"frame">>

logoutRoute == providerPath \o <<"logout">>

refreshRoute == providerPath \o <<"refresh">>

IsPrefix(p, q) == Len(p) <= Len(q) /\ \A i \in 1..Len(p) : p[i] = q[i]

\* the cookies of jar j a browser sends to route, as cookie-parser's req.cookies
cookiesSent(j, route) ==
  LET match == {c \in j : c.domain = "localhost" /\ IsPrefix(c.path, route)}
      names == {c.name : c \in match}
      best(n) == CHOOSE c \in match :
                   /\ c.name = n
                   /\ \A d \in match : d.name = n => Len(d.path) <= Len(c.path)
  IN  [n \in names |-> best(n).value]

\* jar j after the browser stores one Set-Cookie header: a cookie is replaced
\* by one of the same name, domain and path, and dropped when it has expired
storeCookie(j, sc) ==
  LET others == {c \in j : ~(/\ c.name = sc.name
                             /\ c.domain = sc.options.domain
                             /\ c.path = sc.options.path)}
  IN  IF sc.options.maxAge = Big(0)
        THEN others
        ELSE others \cup {[name |-> sc.name, value |-> sc.value,
                           domain |-> sc.options.domain, path |-> sc.options.path]}

RECURSIVE storeCookies(_, _)
storeCookies(j, scs) ==
  IF scs = << >> THEN j ELSE storeCookies(storeCookie(j, Head(scs)), Tail(scs))

\* the cookies client c sends to route: a browser its jar's, the raw client any
Sent(c, route, rawCookies) ==
  IF c \in DOMAIN jar THEN {cookiesSent(jar[c], route)} ELSE rawCookies

\* the jars after client c received response r
Received(c, r) ==
  IF c \in DOMAIN jar THEN [jar EXCEPT ![c] = storeCookies(@, r.cookies)] ELSE jar

---------------------------------------------------------------------------
(* What the environment may send and answer *)

Scopes == {undefined, "", "openid"}

Headers == {undefined, "XMLHttpRequest", "fetch"}

NonceValues == {undefined, ""} \cup Nonces

RefreshTokenValues == {undefined, ""} \cup RefreshTokens

noAnswer == emptyObject

tokenParams == [id_token |-> "id1", scope |-> "openid", expires_in |-> "3599"]

\* what passport hands frameHandler's callback: an error, a failed
\* authentication, or the user the strategy made of the IdP's token response
ExchangeAnswers ==
  {[err |-> "denied", user |-> False], [err |-> undefined, user |-> False]}
  \cup {[err |-> undefined, user |-> strategy("at1", rt, tokenParams, "profile1")] :
          rt \in RefreshTokenValues}

\* what requestNewAccessToken hands refresh's callback
RefreshAnswers ==
  {[err |-> "invalid_grant", accessToken |-> undefined,
    refreshToken |-> undefined, params |-> emptyObject]}
  \cup {[err |-> undefined, accessToken |-> undefined,
          refreshToken |-> undefined, params |-> tokenParams]}
  \cup {[err |-> undefined, accessToken |-> "at2", refreshToken |-> rt,
          params |-> tokenParams] : rt \in {undefined} \cup RefreshTokens}

request(op, c, header, cookies, query, rand, idp) ==
  [op |-> op, client |-> c, header |-> header, cookies |-> cookies,
   query |-> query, rand |-> rand, idp |-> idp]

---------------------------------------------------------------------------
(* The state machine *)

\* what the constructor is given
theConfig == [provider |-> provider, options |-> "clientOptions"]

\* the provider's field after it handled rq, storing what the IdP must see again
fieldsAfter_keepNonce(self, rq) ==
  IF rq.op = "start" THEN [self EXCEPT !.options = rq.rand] ELSE self

\* the provider's field after it handled rq: providerConfig is readonly and no
\* handler assigns to this
fieldsAfter(self, rq) == self

Init ==
  /\ providerConfig = theConfig
  /\ jar = [b \in Browsers |-> {}]
  /\ req = request("none", Raw, undefined, emptyObject, emptyObject, undefined, noAnswer)
  /\ res = newResponse

\* client c requests GET /auth/google/start, with a scope parameter of scopes
StartOf(c, scopes) ==
  \E scope \in scopes, nonce \in Nonces, ck \in Sent(c, startRoute, {emptyObject}) :
    LET rq == request("start", c, undefined, ck, [scope |-> scope], nonce, noAnswer)
    IN  /\ req' = rq
        /\ res' = start(rq)
        /\ jar' = Received(c, start(rq))
        /\ providerConfig' = fieldsAfter(providerConfig, rq)

Start(c) == StartOf(c, Scopes)

\* client c requests GET /auth/google/handler/frame, with a state parameter of
\* states, and the exchange, if made, gives an answer of answers
FrameHandlerOf(c, states, answers) ==
  \E state \in states, ans \in answers,
     ck \in Sent(c, frameRoute, {[n \in {nonceCookieName} |-> v] : v \in NonceValues}) :
    LET rq == request("frameHandler", c, undefined, ck, [state |-> state],
                      undefined, ans)
    IN  /\ req' = rq
        /\ res' = frameHandler(rq)
        /\ jar' = Received(c, frameHandler(rq))
        /\ providerConfig' = fieldsAfter(providerConfig, rq)

FrameHandler(c) == FrameHandlerOf(c, NonceValues, ExchangeAnswers)

\* client c requests POST /auth/google/logout, with a header of headers
LogoutOf(c, headers) ==
  \E header \in headers,
     ck \in Sent(c, logoutRoute,
                 {[n \in {refreshTokenCookieName} |-> v] : v \in RefreshTokenValues}) :
    LET rq == request("logout", c, header, ck, emptyObject, undefined, noAnswer)
    IN  /\ req' = rq
        /\ res' = logout(rq)
        /\ jar' = Received(c, logout(rq))
        /\ providerConfig' = fieldsAfter(providerConfig, rq)

Logout(c) == LogoutOf(c, Headers)

\* client c requests POST /auth/google/refresh, with a header of headers and a
\* scope parameter of scopes, and the grant, if requested, gives an answer of answers
RefreshOf(c, headers, scopes, answers) ==
  \E header \in headers, scope \in scopes, ans \in answers,
     ck \in Sent(c, refreshRoute,
                 {[n \in {refreshTokenCookieName} |-> v] : v \in RefreshTokenValues}) :
    LET rq == request("refresh", c, header, ck, [scope |-> scope], undefined, ans)
    IN  /\ req' = rq
        /\ res' = refresh(rq)
        /\ jar' = Received(c, refresh(rq))
        /\ providerConfig' = fieldsAfter(providerConfig, rq)

Refresh(c) == RefreshOf(c, Headers, {undefined, "openid"}, RefreshAnswers)

\* browser b drops a cookie whose maxAge has run out
Expire(b) ==
  \E c \in jar[b] :
    /\ jar' = [jar EXCEPT ![b] = @ \ {c}]
    /\ UNCHANGED <<providerConfig, req, res>>

Next ==
  \/ \E c \in Clients : Start(c)
  \/ \E c \in Clients : FrameHandler(c)
  \/ \E c \in Clients : Logout(c)
  \/ \E c \in Clients : Refresh(c)
  \/ \E b \in Browsers : Expire(b)

Spec == Init /\ [][Next]_vars

\* two browsers, each with a jar of its own, and no other client
TwoBrowsers == {"b1", "b2"}

InitTwo ==
  /\ providerConfig = theConfig
  /\ jar = [b \in TwoBrowsers |-> {}]
  /\ req = request("none", Raw, undefined, emptyObject, emptyObject, undefined, noAnswer)
  /\ res = newResponse

\* what the two browsers send and are answered: the values that differ in
\* the handlers' branches, one a branch
TwoHeaders == {undefined, "XMLHttpRequest"}

TwoScopes == {undefined, "openid"}

TwoStates == {undefined} \cup Nonces

TwoExchangeAnswers ==
  {a \in ExchangeAnswers :
     \/ Truthy(a.err)
     \/ a.user # False /\ a.user.refreshToken \in {undefined} \cup RefreshTokens}

TwoRefreshAnswers == {a \in RefreshAnswers : Truthy(a.err) \/ Truthy(a.accessToken)}

NextTwo ==
  \/ \E c \in TwoBrowsers : StartOf(c, TwoScopes)
  \/ \E c \in TwoBrowsers : FrameHandlerOf(c, TwoStates, TwoExchangeAnswers)
  \/ \E c \in TwoBrowsers : LogoutOf(c, TwoHeaders)
  \/ \E c \in TwoBrowsers : RefreshOf(c, TwoHeaders, {undefined}, TwoRefreshAnswers)
  \/ \E b \in TwoBrowsers : Expire(b)

SpecTwo == InitTwo /\ [][NextTwo]_vars

---------------------------------------------------------------------------
(* Shorthands for the claims *)

cookieNonceOf(rq) == Get(rq.cookies, nonceCookieName)

stateNonceOf(rq) == Get(rq.query, "state")

cookieRefreshTokenOf(rq) == Get(rq.cookies, refreshTokenCookieName)

\* the request passes frameHandler's nonce check
NoncesMatch(rq) ==
  /\ Truthy(cookieNonceOf(rq))
  /\ Truthy(stateNonceOf(rq))
  /\ cookieNonceOf(rq) = stateNonceOf(rq)

\* the answer the exchange gives (or would give) carries a refresh token
ExchangeGivesRefreshToken(rq) ==
  /\ ~Truthy(rq.idp.err)
  /\ Truthy(Get(rq.idp.user, "refreshToken"))

IsText(r, status, text) ==
  /\ r.status = status
  /\ r.body = [kind |-> "text", text |-> text]
  /\ r.thrown = << >>

\* the values an object holds
ValuesOf(obj) == {obj[k] : k \in DOMAIN obj}

---------------------------------------------------------------------------
(* C1 *)

\* C1: a callback whose nonce cookie and state parameter differ (one of them
\* may be absent) is answered 401 with a CSRF failure text, whatever the
\* exchange would have returned; the exchange is not invoked and no cookie is set.
C1_NonceMismatchIsCsrfFailure ==
  (req.op = "frameHandler" /\ cookieNonceOf(req) # stateNonceOf(req)) =>
    /\ \/ IsText(res, 401, "Missing nonce")
       \/ IsText(res, 401, "Invalid nonce")
    /\ res.idp = << >>
    /\ res.cookies = << >>

\* both nonces present and different, and the exchange would have succeeded
C1_Witness ==
  /\ req.op = "frameHandler"
  /\ Truthy(cookieNonceOf(req))
  /\ Truthy(stateNonceOf(req))
  /\ cookieNonceOf(req) # stateNonceOf(req)
  /\ ExchangeGivesRefreshToken(req)
  /\ res.status = 401

---------------------------------------------------------------------------
(* C2 *)

\* the Set-Cookie headers of r that set the refresh-token cookie to a value
RefreshTokenCookiesSet(r) ==
  {i \in 1..Len(r.cookies) :
     r.cookies[i].name = refreshTokenCookieName /\ r.cookies[i].value # ""}

\* C2: a response sets the refresh-token cookie to a non-empty value only when
\* it answers a callback whose exchange returned a refresh token, and then to
\* that token; a callback with matching nonces whose exchange result has no
\* refresh token sets no cookie and delivers the in-page error 'Missing refresh
\* token', never a payload; so a browser never holds a refresh-token cookie
\* that is not a refresh token.
C2_RefreshCookieOnlyWithRefreshToken ==
  /\ \A i \in RefreshTokenCookiesSet(res) :
       /\ req.op = "frameHandler"
       /\ NoncesMatch(req)
       /\ ExchangeGivesRefreshToken(req)
       /\ res.cookies[i].value = req.idp.user.refreshToken
  /\ (/\ req.op = "frameHandler"
      /\ NoncesMatch(req)
      /\ ~Truthy(req.idp.err)
      /\ ~Truthy(Get(req.idp.user, "refreshToken"))) =>
       /\ res.cookies = << >>
       /\ res.status = 200
       /\ res.body = [kind |-> "postMessage",
                      message |-> [type |-> "auth-result",
                                   error |-> [message |-> "Missing refresh token"]]]
  /\ \A b \in Browsers : \A c \in jar[b] :
       c.name = refreshTokenCookieName => c.value \in RefreshTokens

\* matching nonces, and the exchange made a user of a response without refresh token
C2_Witness ==
  /\ req.op = "frameHandler"
  /\ NoncesMatch(req)
  /\ ~Truthy(req.idp.err)
  /\ "refreshToken" \in DOMAIN req.idp.user
  /\ req.idp.user.refreshToken = undefined
  /\ res.idp = <<[call |-> "exchange"]>>
  /\ res.body.kind = "postMessage"

---------------------------------------------------------------------------
(* C3 *)

\* C3: on the success path of the callback (matching nonces, the exchange
\* returns a user with a refresh token) the payload of the auth-result message
\* is the user without its refreshToken field and holds the refresh token
\* nowhere, and the response sets exactly one cookie, the refresh-token cookie,
\* to the refresh token the exchange returned.
C3_PayloadRedactedCookieCarriesToken ==
  (/\ req.op = "frameHandler"
   /\ NoncesMatch(req)
   /\ ExchangeGivesRefreshToken(req)) =>
    /\ res.body.kind = "postMessage"
    /\ DOMAIN res.body.message = {"type", "payload"}
    /\ res.body.message.type = "auth-result"
    /\ "refreshToken" \notin DOMAIN res.body.message.payload
    /\ req.idp.user.refreshToken \notin ValuesOf(res.body.message.payload)
    /\ res.body.message.payload = Delete(req.idp.user, "refreshToken")
    /\ Len(res.cookies) = 1
    /\ res.cookies[1].name = refreshTokenCookieName
    /\ res.cookies[1].value = req.idp.user.refreshToken

\* a browser's callback succeeded and the browser stored the refresh token
C3_Witness ==
  /\ req.op = "frameHandler"
  /\ req.client \in Browsers
  /\ NoncesMatch(req)
  /\ ExchangeGivesRefreshToken(req)
  /\ res.body.kind = "postMessage"
  /\ \E c \in jar[req.client] :
       c.name = refreshTokenCookieName /\ c.value = req.idp.user.refreshToken

---------------------------------------------------------------------------
(* C4 *)

scopeOf(rq) == scopeToString(Get(rq.query, "scope"))

\* C4: a start with a non-empty scope sets exactly one cookie, the nonce
\* cookie, and redirects to the IdP once, with the scope asked for and with a
\* state parameter equal to the value of that cookie.
C4_NonceCookieEqualsState ==
  (req.op = "start" /\ Truthy(scopeOf(req))) =>
    /\ Len(res.cookies) = 1
    /\ res.cookies[1].name = nonceCookieName
    /\ Truthy(res.cookies[1].value)
    /\ res.thrown = << >>
    /\ Len(res.idp) = 1
    /\ res.idp[1].call = "authorize"
    /\ res.idp[1].options.scope = scopeOf(req)
    /\ res.idp[1].options.state = res.cookies[1].value

\* a browser started a login and holds the nonce the redirect carries as state
C4_Witness ==
  /\ req.op = "start"
  /\ req.client \in Browsers
  /\ Truthy(scopeOf(req))
  /\ res.status = 302
  /\ \E c \in jar[req.client] :
       /\ c.name = nonceCookieName
       /\ c.value = res.idp[1].options.state

---------------------------------------------------------------------------
(* C5 *)

\* C5: a start whose scope parameter is missing or empty throws InputError
\* 'missing scope parameter', whoever sends it and whatever nonce was drawn,
\* and makes no redirect to the IdP.
C5_MissingScopeIsInputError ==
  (req.op = "start" /\ ~Truthy(scopeOf(req))) =>
    /\ res.thrown = <<[name |-> "InputError", message |-> "missing scope parameter"]>>
    /\ res.idp = << >>
    /\ res.body = [kind |-> "none"]

\* a start with the scope parameter present and empty
C5_Witness ==
  /\ req.op = "start"
  /\ "scope" \in DOMAIN req.query
  /\ req.query.scope = ""
  /\ res.thrown # << >>

---------------------------------------------------------------------------
(* C6 *)

\* C6: a refresh or a logout that fails the X-Requested-With check is answered
\* 401 'Invalid X-Requested-With header' whatever cookies it carries (also
\* when the refresh-token cookie is missing too); it sets and clears no cookie
\* and does not contact the IdP.
C6_HeaderCheckFirst ==
  (req.op \in {"refresh", "logout"} /\ ~ensuresXRequestedWith(req)) =>
    /\ IsText(res, 401, "Invalid X-Requested-With header")
    /\ res.cookies = << >>
    /\ res.idp = << >>

\* a refresh with neither the header nor the refresh-token cookie
C6_Witness ==
  /\ req.op = "refresh"
  /\ req.header = undefined
  /\ cookieRefreshTokenOf(req) = undefined
  /\ res.status = 401

---------------------------------------------------------------------------
(* C7 *)

\* C7: a refresh that passes the header check and carries no refresh-token
\* cookie, or an empty one, is answered 401 'Missing session cookie', and the
\* refresh grant is not requested from the IdP.
C7_MissingSessionCookie ==
  (/\ req.op = "refresh"
   /\ ensuresXRequestedWith(req)
   /\ ~Truthy(cookieRefreshTokenOf(req))) =>
    /\ IsText(res, 401, "Missing session cookie")
    /\ res.idp = << >>

\* a refresh with the header and an empty refresh-token cookie
C7_Witness ==
  /\ req.op = "refresh"
  /\ ensuresXRequestedWith(req)
  /\ refreshTokenCookieName \in DOMAIN req.cookies
  /\ cookieRefreshTokenOf(req) = ""
  /\ res.status = 401

---------------------------------------------------------------------------
(* C8 *)

\* C8: a refresh that passes the header check and carries a refresh-token
\* cookie requests the refresh grant with that token; when the grant returns
\* an error or no access token the answer is 401 'Failed to refresh access
\* token', otherwise it is 200 with a body of exactly the fields accessToken,
\* idToken, expiresInSeconds and scope, taken from the grant's answer, and the
\* body holds neither the stored refresh token nor one the IdP returned.
C8_RefreshResult ==
  (/\ req.op = "refresh"
   /\ ensuresXRequestedWith(req)
   /\ Truthy(cookieRefreshTokenOf(req))) =>
    /\ Len(res.idp) = 1
    /\ res.idp[1].call = "refresh"
    /\ res.idp[1].refreshToken = cookieRefreshTokenOf(req)
    /\ IF Truthy(req.idp.err) \/ ~Truthy(req.idp.accessToken)
         THEN IsText(res, 401, "Failed to refresh access token")
         ELSE /\ res.status = 200
              /\ res.body.kind = "json"
              /\ DOMAIN res.body.json =
                   {"accessToken", "idToken", "expiresInSeconds", "scope"}
              /\ res.body.json.accessToken = req.idp.accessToken
              /\ res.body.json.idToken = req.idp.params.id_token
              /\ res.body.json.expiresInSeconds = req.idp.params.expires_in
              /\ res.body.json.scope = req.idp.params.scope
              /\ cookieRefreshTokenOf(req) \notin ValuesOf(res.body.json)
              /\ Truthy(req.idp.refreshToken) =>
                   req.idp.refreshToken \notin ValuesOf(res.body.json)

\* a refresh succeeded and the grant returned a new refresh token as well
C8_Witness ==
  /\ req.op = "refresh"
  /\ ensuresXRequestedWith(req)
  /\ Truthy(cookieRefreshTokenOf(req))
  /\ Truthy(req.idp.refreshToken)
  /\ req.idp.refreshToken # cookieRefreshTokenOf(req)
  /\ res.status = 200
  /\ res.body.kind = "json"

---------------------------------------------------------------------------
(* C9 *)

\* C9: a logout that passes the header check sets exactly one cookie: the
\* refresh-token cookie, under the name, path and domain the callback issues it
\* with, to the value "" with maxAge 0, so that a browser then holds no
\* refresh-token cookie; it answers 200 'logout!', whether or not the request
\* carried the cookie, and does not contact the IdP.
C9_LogoutClearsCookie ==
  (req.op = "logout" /\ ensuresXRequestedWith(req)) =>
    /\ IsText(res, 200, "logout!")
    /\ res.idp = << >>
    /\ Len(res.cookies) = 1
    /\ res.cookies[1].name = refreshTokenCookieName
    /\ res.cookies[1].value = ""
    /\ res.cookies[1].options.maxAge = Big(0)
    /\ res.cookies[1].options.path = frameHandlerCookieOptions.path
    /\ res.cookies[1].options.domain = frameHandlerCookieOptions.domain
    /\ req.client \in Browsers =>
         \A c \in jar[req.client] : c.name # refreshTokenCookieName

\* a browser that held a refresh token logged out
C9_Witness ==
  /\ req.op = "logout"
  /\ req.client \in Browsers
  /\ ensuresXRequestedWith(req)
  /\ Truthy(cookieRefreshTokenOf(req))
  /\ res.status = 200
  /\ jar[req.client] = {}

---------------------------------------------------------------------------
(* C10 *)

\* C10: no response to a refresh sets a cookie, on any of its paths and also
\* when the grant returned a new refresh token; a browser that sent a refresh
\* holds no other refresh token afterwards than the one it sent.
C10_RefreshWritesNoCookie ==
  req.op = "refresh" =>
    /\ res.cookies = << >>
    /\ req.client \in Browsers =>
         \A c \in jar[req.client] :
           c.name = refreshTokenCookieName => c.value = cookieRefreshTokenOf(req)

\* a browser's refresh succeeded, the grant returned another refresh token, and
\* the browser still holds the one it sent
C10_Witness ==
  /\ req.op = "refresh"
  /\ req.client \in Browsers
  /\ res.status = 200
  /\ Truthy(req.idp.refreshToken)
  /\ req.idp.refreshToken # cookieRefreshTokenOf(req)
  /\ \E c \in jar[req.client] :
       c.name = refreshTokenCookieName /\ c.value = cookieRefreshTokenOf(req)

---------------------------------------------------------------------------
(* C11 *)

\* response r delivers the success payload of a callback to request rq
CallbackSucceeded(rq, r) ==
  /\ rq.op = "frameHandler"
  /\ r.body.kind = "postMessage"
  /\ "payload" \in DOMAIN r.body.message

\* C11: a nonce is not reused by successful callbacks: when a browser's callback
\* has succeeded with a nonce, the next callback of that browser does not
\* succeed with the same nonce cookie and state.
C11_NonceNotReused ==
  [][(/\ CallbackSucceeded(req, res)
      /\ CallbackSucceeded(req', res')
      /\ req' # req
      /\ req.client \in DOMAIN jar
      /\ req'.client = req.client)
       => cookieNonceOf(req') # cookieNonceOf(req)]_vars

---------------------------------------------------------------------------
(* C12 *)

\* C12: the secure attribute of every cookie the provider sets (nonce,
\* refresh-token set, refresh-token clear) has the safe value unless the
\* deployment configures otherwise: with the configuration the constructor is
\* given, which says nothing about cookies, every cookie set is secure.
C12_CookiesSecureByDefault ==
  \A i \in 1..Len(res.cookies) : res.cookies[i].options.secure = TRUE

---------------------------------------------------------------------------
(* C13 *)

\* C13: a callback whose nonce cookie or state parameter is absent or empty is
\* answered with the plain text 401 'Missing nonce', also when the other one
\* is present; one whose cookie and state are both present and different with
\* the plain text 401 'Invalid nonce'; every other callback gets an auth-result
\* message instead.
C13_MissingBeforeInvalid ==
  req.op = "frameHandler" =>
    IF ~Truthy(cookieNonceOf(req)) \/ ~Truthy(stateNonceOf(req))
      THEN IsText(res, 401, "Missing nonce")
      ELSE IF cookieNonceOf(req) # stateNonceOf(req)
        THEN IsText(res, 401, "Invalid nonce")
        ELSE /\ res.body.kind = "postMessage"
             /\ res.body.message.type = "auth-result"
             /\ res.status = 200

\* a browser that holds a nonce calls back without a state parameter
C13_Witness ==
  /\ req.op = "frameHandler"
  /\ req.client \in Browsers
  /\ Truthy(cookieNonceOf(req))
  /\ stateNonceOf(req) = undefined
  /\ res.body = [kind |-> "text", text |-> "Missing nonce"]

---------------------------------------------------------------------------
(* C14 *)

\* C14: a callback with matching nonces whose exchange returns an error
\* delivers an auth-result message with an error that names it and no payload,
\* with status 200 and not 401; it sets no cookie, so a browser holds no other
\* refresh token afterwards than the one it held before.
C14_ExchangeErrorIsInPageError ==
  (/\ req.op = "frameHandler"
   /\ NoncesMatch(req)
   /\ Truthy(req.idp.err)) =>
    /\ res.status = 200
    /\ res.thrown = << >>
    /\ res.body = [kind |-> "postMessage",
                   message |-> [type |-> "auth-result",
                                error |-> [message |->
                                             "Google auth failed, " \o req.idp.err]]]
    /\ res.cookies = << >>
    /\ req.client \in Browsers =>
         \A c \in jar[req.client] :
           c.name = refreshTokenCookieName => c.value = cookieRefreshTokenOf(req)

\* the callback of a browser that holds a refresh token fails in the exchange,
\* and the browser still holds the token
C14_Witness ==
  /\ req.op = "frameHandler"
  /\ req.client \in Browsers
  /\ NoncesMatch(req)
  /\ Truthy(req.idp.err)
  /\ res.idp = <<[call |-> "exchange"]>>
  /\ Truthy(cookieRefreshTokenOf(req))
  /\ \E c \in jar[req.client] :
       c.name = refreshTokenCookieName /\ c.value = cookieRefreshTokenOf(req)

---------------------------------------------------------------------------
(* C15 *)

\* C15: the attributes of a cookie are fixed by its kind and the provider id:
\* start sets only the nonce cookie, with maxAge 600000 ms and path
\* /auth/google/handler; the callback sets only the refresh-token cookie, with
\* maxAge 86400000000 ms (86400 * 10^6) and path /auth/google; logout clears it
\* with maxAge 0 and path /auth/google; every cookie is httpOnly and has the
\* same domain.
C15_CookieAttributes ==
  \A i \in 1..Len(res.cookies) :
    LET c == res.cookies[i]
    IN  /\ c.options.httpOnly = TRUE
        /\ c.options.domain = "localhost"
        /\ req.op \in {"start", "frameHandler", "logout"}
        /\ req.op = "start" =>
             /\ c.name = "google-nonce"
             /\ c.options.maxAge = <<0, 600000>>
             /\ c.options.path = <<"auth", "google", "handler">>
        /\ req.op = "frameHandler" =>
             /\ c.name = "google-refresh-token"
             /\ c.value # ""
             /\ c.options.maxAge = <<86400, 0>>
             /\ c.options.path = <<"auth", "google">>
        /\ req.op = "logout" =>
             /\ c.name = "google-refresh-token"
             /\ c.value = ""
             /\ c.options.maxAge = <<0, 0>>
             /\ c.options.path = <<"auth", "google">>

\* a callback has set the refresh-token cookie
C15_Witness ==
  /\ req.op = "frameHandler"
  /\ Len(res.cookies) = 1
  /\ res.cookies[1].options.maxAge = THOUSAND_DAYS_MS

---------------------------------------------------------------------------
(* C16 *)

\* the cookies named name that the browsers hold
CookiesNamed(j, name) == [b \in DOMAIN j |-> {c \in j[b] : c.name = name}]

\* C16: no response to a callback, whatever its outcome (401, in-page error,
\* success), sets or clears the nonce cookie, and handling a callback leaves
\* the nonce cookie every browser holds as it was.
C16_CallbackKeepsNonceCookie ==
  /\ [](req.op = "frameHandler" =>
          \A i \in 1..Len(res.cookies) : res.cookies[i].name # nonceCookieName)
  /\ [][(req'.op = "frameHandler" /\ <<req, res>>' # <<req, res>>) =>
          CookiesNamed(jar', nonceCookieName) = CookiesNamed(jar, nonceCookieName)]_vars

\* a browser's callback succeeded and the browser still holds the nonce
C16_Witness ==
  /\ CallbackSucceeded(req, res)
  /\ req.client \in Browsers
  /\ \E c \in jar[req.client] :
       c.name = nonceCookieName /\ c.value = stateNonceOf(req)

---------------------------------------------------------------------------
(* C17 *)

\* the route a request is sent to
RouteOf(op) ==
  CASE op = "start" -> startRoute
    [] op = "frameHandler" -> frameRoute
    [] op = "logout" -> logoutRoute
    [] op = "refresh" -> refreshRoute

\* the response of the provider to a request
Handle(rq) ==
  CASE rq.op = "start" -> start(rq)
    [] rq.op = "frameHandler" -> frameHandler(rq)
    [] rq.op = "logout" -> logout(rq)
    [] rq.op = "refresh" -> refresh(rq)

---------------------------------------------------------------------------
(* C18 *)

\* C18: a start that fails with InputError because the scope is missing has no
\* effect on the browser: its response sets no cookie.
C18_FailedStartSetsNoCookie ==
  (req.op = "start" /\ res.thrown # << >>) => res.cookies = << >>

---------------------------------------------------------------------------
(* C19 *)

\* the refresh tokens browser b holds in jars j
HeldRefreshTokens(j, b) == {c.value : c \in {d \in j[b] : d.name = refreshTokenCookieName}}

\* the step handles a request of a browser
BrowserRequestStep ==
  /\ <<req, res>>' # <<req, res>>
  /\ req'.client \in DOMAIN jar

\* response r passes refresh token t on to the IdP's refresh grant, once
ReachesIdPWith(r, t) ==
  /\ Len(r.idp) = 1
  /\ r.idp[1].call = "refresh"
  /\ r.idp[1].refreshToken = t

\* C19 as claimed: after a browser's successful callback, and until its next
\* request, every refresh of that browser with a valid header reaches the IdP
\* with the refresh token the callback stored.
C19_RefreshAfterCallbackReachesIdP ==
  [][(/\ CallbackSucceeded(req, res)
      /\ req.client \in DOMAIN jar
      /\ req'.client = req.client
      /\ req'.op = "refresh"
      /\ ensuresXRequestedWith(req'))
       => ReachesIdPWith(res', req.idp.user.refreshToken)]_vars

\* C19, amended: a browser holds at most one refresh token.  A successful
\* callback makes it the token the exchange returned, a logout with a valid
\* header leaves none, and no other request changes it (it can otherwise only
\* expire).  A refresh with a valid header reaches the IdP with exactly the
\* token the browser holds, and fails with 401 'Missing session cookie'
\* without reaching the IdP when it holds none.
C19_RefreshTokenLifecycle ==
  /\ [](\A b \in DOMAIN jar : Cardinality(HeldRefreshTokens(jar, b)) <= 1)
  /\ [][BrowserRequestStep =>
          LET b == req'.client
              loggedIn == CallbackSucceeded(req', res')
              loggedOut == req'.op = "logout" /\ ensuresXRequestedWith(req')
          IN  /\ loggedIn =>
                   HeldRefreshTokens(jar', b) = {req'.idp.user.refreshToken}
              /\ loggedOut => HeldRefreshTokens(jar', b) = {}
              /\ (~loggedIn /\ ~loggedOut) =>
                   HeldRefreshTokens(jar', b) = HeldRefreshTokens(jar, b)
              /\ (req'.op = "refresh" /\ ensuresXRequestedWith(req')) =>
                   IF HeldRefreshTokens(jar, b) = {}
                     THEN /\ IsText(res', 401, "Missing session cookie")
                          /\ res'.idp = << >>
                     ELSE \E t \in HeldRefreshTokens(jar, b) :
                            ReachesIdPWith(res', t)]_vars

\* a browser that logged in and then logged out asks for a refresh
C19_Witness ==
  /\ req.op = "refresh"
  /\ req.client \in Browsers
  /\ ensuresXRequestedWith(req)
  /\ HeldRefreshTokens(jar, req.client) = {}
  /\ \E c \in jar[req.client] : c.name = nonceCookieName
  /\ IsText(res, 401, "Missing session cookie")

---------------------------------------------------------------------------
(* C20 *)

\* the nonces browser b holds in jars j
HeldNonces(j, b) == {c.value : c \in {d \in j[b] : d.name = nonceCookieName}}

\* response r is a callback's that got past both nonce checks
PassedNonceCheck(r) ==
  /\ ~IsText(r, 401, "Missing nonce")
  /\ ~IsText(r, 401, "Invalid nonce")

\* C20: a browser holds at most one nonce, and every start of that browser
\* replaces it by the nonce it has just issued.  So a callback of the browser
\* whose state is another nonce than the one it holds (an earlier attempt's)
\* is rejected with 401 'Invalid nonce', and a callback passes the nonce
\* check only with the state of the most recently issued nonce.
C20_LatestStartWins ==
  /\ [](\A b \in DOMAIN jar : Cardinality(HeldNonces(jar, b)) <= 1)
  /\ [][BrowserRequestStep =>
          LET b == req'.client
              state == Get(req'.query, "state")
          IN  /\ req'.op = "start" => HeldNonces(jar', b) = {req'.rand}
              /\ (/\ req'.op = "frameHandler"
                  /\ Truthy(state)
                  /\ HeldNonces(jar, b) # {}
                  /\ state \notin HeldNonces(jar, b))
                   => IsText(res', 401, "Invalid nonce")
              /\ (req'.op = "frameHandler" /\ PassedNonceCheck(res'))
                   => HeldNonces(jar, b) = {state}]_vars

\* the callback of an earlier attempt arrives at a browser that holds the
\* nonce of a later one
C20_Witness ==
  /\ req.op = "frameHandler"
  /\ req.client \in Browsers
  /\ stateNonceOf(req) \in Nonces
  /\ HeldNonces(jar, req.client) # {}
  /\ HeldNonces(jar, req.client) \subseteq Nonces \ {stateNonceOf(req)}
  /\ IsText(res, 401, "Invalid nonce")

=============================================================================
